---- MODULE Spec2Model ----
(***************************************************************************)
(* Model of scripts/calculate-elementary-bitboard-tables.py: the generator *)
(* of (sub-mask, multiplier) layers that emulate bit-extract for the       *)
(* sliding-piece attack tables.                                            *)
(*                                                                         *)
(* A 64-bit word (and any Python integer the script computes) is modelled  *)
(* as the set of the positions of its one bits: bit k is set iff k is in   *)
(* the set.  |, & and ^ are union, intersection and symmetric difference;  *)
(* multiplication is carried out column by column with carries.            *)
(***************************************************************************)
EXTENDS Integers, FiniteSets, Sequences, TLC

\* Board geometry and word width of the script.
NumSquares == 64
WordBits == 64
PadLayers == 3
MaxLayers == 4

Bits64 == 0 .. (WordBits - 1)

Min(S) == CHOOSE x \in S : \A y \in S : x <= y
Max(S) == CHOOSE x \in S : \A y \in S : x >= y

RECURSIVE Pow2(_)
Pow2(n) == IF n = 0 THEN 1 ELSE 2 * Pow2(n - 1)

\* a | b, a & b, a ^ b
Or(a, b) == a \cup b
And(a, b) == a \cap b
Xor(a, b) == (a \ b) \cup (b \ a)

\* x & (-x): the lowest set bit of x, 0 for x = 0
LowBit(x) == IF x = {} THEN {} ELSE {Min(x)}

\* a <= b on non-negative integers: equal, or the highest differing bit is in b
Leq(a, b) == a = b \/ Max(Xor(a, b)) \in b

\* a << n
Shl(a, n) == {k + n : k \in a}

\* (a mod 2^64) >> n, the runtime's 64-bit logical shift
Shr64(a, n) == {k - n : k \in {j \in a : j >= n /\ j < WordBits}}

\* (1 << n) - 1
LowOnes(n) == 0 .. (n - 1)

\* int.bit_count()
bit_count(x) == Cardinality(x)

\* Column k of the schoolbook product a * b plus the incoming carry.
RECURSIVE MulCarry(_, _, _, _, _)
MulCarry(a, b, k, hi, carry) ==
    IF k > hi /\ carry = 0 THEN {}
    ELSE LET c == Cardinality({i \in a : (k - i) \in b}) + carry
         IN  (IF c % 2 = 1 THEN {k} ELSE {})
             \cup MulCarry(a, b, k + 1, hi, c \div 2)

\* mul(a, b): the exact (unbounded) integer product
mul(a, b) ==
    IF a = {} \/ b = {} THEN {}
    ELSE MulCarry(a, b, Min(a) + Min(b), Max(a) + Max(b), 0)

\* The precondition asserted by findMultiplier
findMultiplierPre(maskBit, targetBit) == Leq(maskBit, targetBit)

\* targetBit // maskBit for single-bit operands with maskBit <= targetBit
BitQuotient(targetBit, maskBit) ==
    IF targetBit = {} THEN {} ELSE {Max(targetBit) - Max(maskBit)}

\* findMultiplier without the accumulated multiplier: return targetBit // maskBit
findMultiplier_NoOr(maskBit, targetBit, multiplier) ==
    BitQuotient(targetBit, maskBit)

\* findMultiplier with the shift distance one too large
findMultiplier_Doubled(maskBit, targetBit, multiplier) ==
    Or(multiplier, Shl(BitQuotient(targetBit, maskBit), 1))

findMultiplier(maskBit, targetBit, multiplier) ==
    Or(multiplier, BitQuotient(targetBit, maskBit))

\* Acceptance that looks at the new bit only, not at the accumulated sub-mask
Accepts_NewBitOnly(cMask, maskBit, tryMultiplier, tMask, cTargetBits, targetBit) ==
    /\ tryMultiplier # {}
    /\ And(mul(maskBit, tryMultiplier), tMask) = targetBit

\* The acceptance test of findMultiplierForMask
Accepts(cMask, maskBit, tryMultiplier, tMask, cTargetBits, targetBit) ==
    /\ tryMultiplier # {}
    /\ And(mul(Or(cMask, maskBit), tryMultiplier), tMask) = Or(cTargetBits, targetBit)

\* verifyMultiplier: TRUE iff no assertion fails
RECURSIVE verifyLoop(_, _, _, _, _)
verifyLoop(m, tMask, cMask, multiplier, targetBit) ==
    IF m = {} THEN TRUE
    ELSE LET maskBit == LowBit(m)
         IN  /\ (And(cMask, maskBit) # {}
                   => And(mul(maskBit, multiplier), tMask) = targetBit)
             /\ verifyLoop(Xor(m, maskBit), tMask, cMask, multiplier, Shl(targetBit, 1))

verifyMultiplier(m, tMask, cMask, multiplier) ==
    verifyLoop(m, tMask, cMask, multiplier, LowBit(tMask))

\* The update of remainingTargetBits without the "& targetMask"
NextRemainingTargetBits_NoMask(rtb, cm, multiplier, tMask) ==
    Xor(rtb, mul(cm, multiplier))

\* remainingTargetBits ^ mul(cm, multiplier) & targetMask
NextRemainingTargetBits(rtb, cm, multiplier, tMask) ==
    Xor(rtb, And(mul(cm, multiplier), tMask))

\* consumedMask | cm
NextConsumedMask(cMask, cm) == Or(cMask, cm)

squareBit(col, row) == {8 * row + col}

\* getRookMask with the loops running over range(0, 8)
getRookMask_Edges(s) ==
    LET col == s % 8
        row == s \div 8
    IN  UNION {squareBit(c, row) : c \in (0 .. 7) \ {col}}
        \cup UNION {squareBit(col, r) : r \in (0 .. 7) \ {row}}

getRookMask(s) ==
    LET col == s % 8
        row == s \div 8
    IN  UNION {squareBit(c, row) : c \in (1 .. 6) \ {col}}
        \cup UNION {squareBit(col, r) : r \in (1 .. 6) \ {row}}

getBishopMask(s) ==
    LET col == s % 8
        row == s \div 8
    IN  UNION {squareBit(col + dx * i, row - dy * i) :
                 <<i, dx, dy>> \in {t \in (1 .. 6) \X {-1, 1} \X {-1, 1} :
                     /\ (col + t[2] * t[1]) \in 1 .. 6
                     /\ (row - t[3] * t[1]) \in 1 .. 6}}

getMask(p, s) == IF p = "rook" THEN getRookMask(s) ELSE getBishopMask(s)

\* targetMask one bit too wide
targetMaskOf_Wide(m) == Xor(LowOnes(WordBits - bit_count(m) - 1), Bits64)

\* ((1 << (64 - popcount)) - 1) ^ 0xffffffffffffffff
targetMaskOf(m) == Xor(LowOnes(WordBits - bit_count(m)), Bits64)

\* targetShift counted from bit 63 instead of 64
targetShiftOf_OffByOne(m) == (WordBits - 1) - bit_count(m)

targetShiftOf(m) == WordBits - bit_count(m)

\* tableSize overwritten instead of accumulated
NextTableSize_Overwrite(ts, m) == Pow2(bit_count(m))

\* tableSize + (1 << mask.bit_count())
NextTableSize(ts, m) == ts + Pow2(bit_count(m))

\* while len(maskMultipliers) < 3: maskMultipliers.append((0,0))
RECURSIVE PadMultipliers(_)
PadMultipliers(mm) ==
    IF Len(mm) < PadLayers THEN PadMultipliers(Append(mm, <<{}, {}>>)) ELSE mm

\* product ^= mul(mask, multiplier) over the layers
RECURSIVE ProductOf(_)
ProductOf(mm) ==
    IF mm = <<>> THEN {}
    ELSE Xor(ProductOf(SubSeq(mm, 1, Len(mm) - 1)), mul(mm[Len(mm)][1], mm[Len(mm)][2]))

VARIABLES
    piece,                \* piece type whose masks are generated
    sq,                   \* loop variable of the main loop
    pc,                   \* position in the script
    mask,                 \* main: mask
    tableSize,            \* main: tableSize
    targetMask,           \* main: targetMask
    targetShift,          \* main: targetShift
    maskMultipliers,      \* findAllMultipliersForMask / main: maskMultipliers
    consumedMask,         \* findAllMultipliersForMask: consumedMask
    remainingTargetBits,  \* findAllMultipliersForMask: remainingTargetBits
    fMask,                \* findMultiplierForMask: mask
    fTargetBits,          \* findMultiplierForMask: targetBits
    fConsumedMask,        \* findMultiplierForMask: consumedMask
    fConsumedTargetBits,  \* findMultiplierForMask: consumedTargetBits
    fMultiplier,          \* findMultiplierForMask: multiplier
    layerTargetBits,      \* history: consumedTargetBits of each returned layer
    product,              \* main: product
    out,                  \* records printed so far
    printedTableSize,     \* the value of the final "PEXT table size" line, -1 before
    failed                \* the assertion that aborted the run, "none" otherwise

vars == <<piece, sq, pc, mask, tableSize, targetMask, targetShift, maskMultipliers,
          consumedMask, remainingTargetBits, fMask, fTargetBits, fConsumedMask,
          fConsumedTargetBits, fMultiplier, layerTargetBits, product, out,
          printedTableSize, failed>>

mainVars == <<piece, sq, mask, tableSize, targetMask, targetShift, product, out,
              printedTableSize>>
findVars == <<fMask, fTargetBits, fConsumedMask, fConsumedTargetBits, fMultiplier>>
allVars == <<maskMultipliers, consumedMask, remainingTargetBits, layerTargetBits>>

\* The script as checked in: line 141 selects the bishop masks.
Init ==
    /\ piece = "bishop"
    /\ sq = 0
    /\ pc = "loop"
    /\ mask = {}
    /\ tableSize = 0
    /\ targetMask = {}
    /\ targetShift = 0
    /\ maskMultipliers = <<>>
    /\ consumedMask = {}
    /\ remainingTargetBits = {}
    /\ fMask = {}
    /\ fTargetBits = {}
    /\ fConsumedMask = {}
    /\ fConsumedTargetBits = {}
    /\ fMultiplier = {}
    /\ layerTargetBits = <<>>
    /\ product = {}
    /\ out = <<>>
    /\ printedTableSize = -1
    /\ failed = "none"

\* findAllMultipliersForMask(mask, targetMask) entered for one (piece, square)
InitFn ==
    /\ piece \in {"bishop", "rook"}
    /\ sq \in 0 .. (NumSquares - 1)
    /\ pc = "decompose"
    /\ mask = getMask(piece, sq)
    /\ tableSize = 0
    /\ targetMask = targetMaskOf(mask)
    /\ targetShift = targetShiftOf(mask)
    /\ maskMultipliers = <<>>
    /\ consumedMask = {}
    /\ remainingTargetBits = targetMask
    /\ fMask = {}
    /\ fTargetBits = {}
    /\ fConsumedMask = {}
    /\ fConsumedTargetBits = {}
    /\ fMultiplier = {}
    /\ layerTargetBits = <<>>
    /\ product = {}
    /\ out = <<>>
    /\ printedTableSize = -1
    /\ failed = "none"

\* Lines 139-151: one iteration of the main loop up to the call of
\* findAllMultipliersForMask, and lines 77-80 of the callee.
BeginSquare ==
    /\ pc = "loop"
    /\ sq < NumSquares
    /\ mask' = getMask(piece, sq)
    /\ tableSize' = NextTableSize(tableSize, mask')
    /\ targetMask' = targetMaskOf(mask')
    /\ targetShift' = targetShiftOf(mask')
    /\ consumedMask' = {}
    /\ remainingTargetBits' = targetMask'
    /\ maskMultipliers' = <<>>
    /\ layerTargetBits' = <<>>
    /\ pc' = "decompose"
    /\ UNCHANGED <<piece, sq, product, out, printedTableSize, failed>>
    /\ UNCHANGED findVars

\* Lines 82-85 and 36-40: the loop test holds, findMultiplierForMask is entered.
CallFind ==
    /\ pc = "decompose"
    /\ Xor(mask, consumedMask) # {}
    /\ fMask' = Xor(mask, consumedMask)
    /\ fTargetBits' = remainingTargetBits
    /\ fConsumedMask' = {}
    /\ fConsumedTargetBits' = {}
    /\ fMultiplier' = {}
    /\ pc' = "find"
    /\ UNCHANGED mainVars
    /\ UNCHANGED allVars
    /\ UNCHANGED failed

\* Lines 42-60: one iteration of the loop of findMultiplierForMask.
FindStep ==
    /\ pc = "find"
    /\ fMask # {}
    /\ LET maskBit == LowBit(fMask)
           targetBit == LowBit(fTargetBits)
           tryMultiplier == findMultiplier(maskBit, targetBit, fMultiplier)
       IN  /\ fMask' = Xor(fMask, maskBit)
           /\ fTargetBits' = Xor(fTargetBits, targetBit)
           /\ IF ~findMultiplierPre(maskBit, targetBit)
              THEN /\ failed' = "findMultiplier"
                   /\ pc' = "abort"
                   /\ UNCHANGED <<fMultiplier, fConsumedMask, fConsumedTargetBits>>
              ELSE /\ UNCHANGED <<failed, pc>>
                   /\ IF Accepts(fConsumedMask, maskBit, tryMultiplier, targetMask,
                                 fConsumedTargetBits, targetBit)
                      THEN /\ fMultiplier' = tryMultiplier
                           /\ fConsumedMask' = Or(fConsumedMask, maskBit)
                           /\ fConsumedTargetBits' = Or(fConsumedTargetBits, targetBit)
                      ELSE UNCHANGED <<fMultiplier, fConsumedMask, fConsumedTargetBits>>
    /\ UNCHANGED mainVars
    /\ UNCHANGED allVars

\* Lines 62 and 85-94: findMultiplierForMask returns, the layer is verified
\* and appended.
FindReturn ==
    /\ pc = "find"
    /\ fMask = {}
    /\ IF ~verifyMultiplier(mask, targetMask, fConsumedMask, fMultiplier)
       THEN /\ failed' = "verifyMultiplier"
            /\ pc' = "abort"
            /\ UNCHANGED allVars
       ELSE /\ maskMultipliers' = Append(maskMultipliers, <<fConsumedMask, fMultiplier>>)
            /\ layerTargetBits' = Append(layerTargetBits, fConsumedTargetBits)
            /\ remainingTargetBits' =
                   NextRemainingTargetBits(remainingTargetBits, fConsumedMask,
                                           fMultiplier, targetMask)
            /\ consumedMask' = NextConsumedMask(consumedMask, fConsumedMask)
            /\ pc' = "decompose"
            /\ UNCHANGED failed
    /\ UNCHANGED mainVars
    /\ UNCHANGED findVars

\* Lines 82 and 96: the residual mask is empty, findAllMultipliersForMask returns.
DecomposeReturn ==
    /\ pc = "decompose"
    /\ Xor(mask, consumedMask) = {}
    /\ pc' = "decomposed"
    /\ UNCHANGED mainVars
    /\ UNCHANGED findVars
    /\ UNCHANGED allVars
    /\ UNCHANGED failed

\* The text of one record as printed by lines 157-180.
RecordOf(mm, shift, prod, tMask) ==
    [masks |-> [i \in 1 .. Len(mm) |-> mm[i][1]],
     shift |-> shift,
     multipliers |-> [i \in 1 .. Len(mm) |-> mm[i][2]],
     zeroPadding |-> 0,
     maskedProduct |-> And(prod, tMask),
     closed |-> FALSE]

\* Lines 153-180: padding, product and the prints that precede the assertion.
EmitRecord ==
    /\ pc = "decomposed"
    /\ maskMultipliers' = PadMultipliers(maskMultipliers)
    /\ product' = ProductOf(maskMultipliers')
    /\ mask' = maskMultipliers'[Len(maskMultipliers')][1]
    /\ out' = Append(out, RecordOf(maskMultipliers', targetShift, product', targetMask))
    /\ pc' = "assert"
    /\ UNCHANGED <<piece, sq, tableSize, targetMask, targetShift, printedTableSize, failed>>
    /\ UNCHANGED <<consumedMask, remainingTargetBits, layerTargetBits>>
    /\ UNCHANGED findVars

\* Lines 181-183: the layer-count assertion and the closing line of the record.
AssertLayers ==
    /\ pc = "assert"
    /\ IF Len(maskMultipliers) <= MaxLayers
       THEN /\ out' = [out EXCEPT ![Len(out)].closed = TRUE]
            /\ sq' = sq + 1
            /\ pc' = "loop"
            /\ UNCHANGED failed
       ELSE /\ failed' = "layers"
            /\ pc' = "abort"
            /\ UNCHANGED <<out, sq>>
    /\ UNCHANGED <<piece, mask, tableSize, targetMask, targetShift, product, printedTableSize>>
    /\ UNCHANGED allVars
    /\ UNCHANGED findVars

\* Line 185: the loop is over, the table size is printed.
Finish ==
    /\ pc = "loop"
    /\ sq = NumSquares
    /\ printedTableSize' = tableSize
    /\ pc' = "done"
    /\ UNCHANGED <<piece, sq, mask, tableSize, targetMask, targetShift, product, out, failed>>
    /\ UNCHANGED allVars
    /\ UNCHANGED findVars

Next ==
    \/ BeginSquare
    \/ CallFind
    \/ FindStep
    \/ FindReturn
    \/ DecomposeReturn
    \/ EmitRecord
    \/ AssertLayers
    \/ Finish

Spec == Init /\ [][Next]_vars

NextFn ==
    \/ CallFind
    \/ FindStep
    \/ FindReturn
    \/ DecomposeReturn

SpecFn == InitFn /\ [][NextFn]_vars

(***************************************************************************)
(* Properties                                                              *)
(***************************************************************************)

\* The residual (not yet consumed) mask of findAllMultipliersForMask
Residual == Xor(mask, consumedMask)

\* The top popcount(m) bits of a 64-bit word
TopBits(m) == {k \in Bits64 : k >= WordBits - bit_count(m)}

\* The target bit at the ordinal position of mask bit b within the full mask m
TargetPos(m, b) == (WordBits - bit_count(m)) + Cardinality({x \in m : x < b})

\* The runtime lookup index of the consumer:
\* XOR over layers of (((occ & subMask) * multiplier) mod 2^64) >> shift
RECURSIVE RuntimeIndex(_, _, _)
RuntimeIndex(occ, mm, shift) ==
    IF mm = <<>> THEN {}
    ELSE Xor(RuntimeIndex(occ, SubSeq(mm, 1, Len(mm) - 1), shift),
             Shr64(mul(And(occ, mm[Len(mm)][1]), mm[Len(mm)][2]), shift))

\* C1: once the decomposition of a bishop or rook mask has returned, the
\* runtime index with shift = 64 - popcount(mask) takes 2^popcount(mask)
\* distinct values over the occupancy subsets of the mask, i.e. it is
\* injective.
C1_PerfectHash ==
    pc = "decomposed" =>
        Cardinality({RuntimeIndex(occ, maskMultipliers, WordBits - bit_count(mask)) :
                        occ \in SUBSET mask}) = Pow2(bit_count(mask))

C1_Witness ==
    /\ pc = "decomposed"
    /\ piece = "rook"
    /\ sq = 0
    /\ bit_count(mask) = 12
    /\ maskMultipliers = << <<{1, 2, 3, 4, 5, 6, 16, 32, 48}, {15, 29, 43, 51}>>,
                            <<{8, 24, 40}, {22, 36, 50}>> >>

\* C2: the decomposition returns at most 4 layers whose sub-masks are
\* pairwise disjoint and whose union is the full mask.
C2_DisjointCover ==
    pc = "decomposed" =>
        /\ Len(maskMultipliers) <= 4
        /\ \A i, j \in 1 .. Len(maskMultipliers) :
               i # j => And(maskMultipliers[i][1], maskMultipliers[j][1]) = {}
        /\ UNION {maskMultipliers[i][1] : i \in 1 .. Len(maskMultipliers)}
               = getMask(piece, sq)

C2_Witness ==
    /\ pc = "decomposed"
    /\ piece = "bishop"
    /\ sq = 27
    /\ maskMultipliers = << <<{9, 18, 34, 41, 54}, {9, 20, 25, 39, 46}>>,
                            <<{13, 36, 45}, {17, 24, 43}>>,
                            <<{20}, {38}>> >>

OnOuterFile(b) == b % 8 \in {0, 7}
OnOuterRank(b) == b \div 8 \in {0, 7}

\* C3 as stated: the mask excludes the origin and every square of an
\* outermost rank or file.
C3_NoEdgeSquares ==
    /\ sq \notin mask
    /\ \A b \in mask : ~OnOuterFile(b) /\ ~OnOuterRank(b)

\* C3 amended: the mask excludes the origin; a bishop mask has no square of
\* an outermost rank or file; a rook mask has a square of an outermost file
\* only on the origin's own file and a square of an outermost rank only on
\* the origin's own rank, and never a corner.
C3_EdgeOnlyOnOwnLine ==
    /\ sq \notin mask
    /\ piece = "bishop" => \A b \in mask : ~OnOuterFile(b) /\ ~OnOuterRank(b)
    /\ piece = "rook" =>
           \A b \in mask :
               /\ OnOuterFile(b) => b % 8 = sq % 8
               /\ OnOuterRank(b) => b \div 8 = sq \div 8
               /\ ~(OnOuterFile(b) /\ OnOuterRank(b))

C3_Witness ==
    /\ piece = "rook"
    /\ sq = 0
    /\ mask = (1 .. 6) \cup {8, 16, 24, 32, 40, 48}

\* C4: every printed record has exactly 4 sub-masks and 4 multipliers, the
\* layers found followed by (0, 0) padding, a multiplier being zero exactly
\* where its sub-mask is zero.
C4_ExactlyFourLayers ==
    \A r \in 1 .. Len(out) :
        /\ Len(out[r].masks) = 4
        /\ Len(out[r].multipliers) = 4
        /\ \A i \in 1 .. Len(out[r].masks) :
               (out[r].multipliers[i] = {}) <=> (out[r].masks[i] = {})

\* C5: when an assertion has aborted the run, no record text has been
\* printed.
C5_NothingPrintedOnAbort ==
    failed # "none" => out = <<>>

\* No assertion of the script ever fails.
NeverFails == failed = "none" /\ pc # "abort"

RECURSIVE SumTableSize(_, _)
SumTableSize(p, n) ==
    IF n = 0 THEN 0 ELSE SumTableSize(p, n - 1) + Pow2(bit_count(getMask(p, n - 1)))

\* C6 as stated: a completed run has printed 128 records, one per square and
\* piece type, and the table size summed over those 128 masks.
C6_Records128 ==
    pc = "done" =>
        /\ Len(out) = 128
        /\ printedTableSize = SumTableSize("rook", 64) + SumTableSize("bishop", 64)

\* C6 amended: a completed run has printed 64 complete records, the r-th one
\* for the bishop mask of square r - 1, and the table size summed over those
\* 64 bishop masks.
C6_Records64 ==
    pc = "done" =>
        /\ Len(out) = 64
        /\ \A r \in 1 .. Len(out) :
               /\ out[r].closed
               /\ UNION {out[r].masks[i] : i \in 1 .. Len(out[r].masks)}
                      = getBishopMask(r - 1)
               /\ out[r].shift = 64 - bit_count(getBishopMask(r - 1))
        /\ printedTableSize = SumTableSize("bishop", 64)

C6_Witness ==
    /\ pc = "done"
    /\ Len(out) = 64
    /\ out[1].masks = <<{9, 18, 27, 36, 45, 54}, {}, {}>>
    /\ out[1].multipliers = <<{9, 17, 25, 33, 41, 49}, {}, {}>>
    /\ out[1].shift = 58
    /\ printedTableSize = 5248

\* C7: with p = popcount(mask), the shift is 64 - p, each layer's product
\* masked by the top p bits is the target bits that layer claimed, no target
\* bit is claimed twice, and the XOR of the layers' products masked by the
\* top p bits is exactly those p bits.
C7_ShiftAndProduct ==
    pc = "decomposed" =>
        /\ targetShift = 64 - bit_count(mask)
        /\ \A i \in 1 .. Len(maskMultipliers) :
               And(mul(maskMultipliers[i][1], maskMultipliers[i][2]), TopBits(mask))
                   = layerTargetBits[i]
        /\ \A i, j \in 1 .. Len(maskMultipliers) :
               i # j => And(layerTargetBits[i], layerTargetBits[j]) = {}
        /\ bit_count(And(ProductOf(maskMultipliers), TopBits(mask))) = bit_count(mask)
        /\ And(ProductOf(maskMultipliers), TopBits(mask)) = TopBits(mask)

C7_Witness ==
    /\ pc = "decomposed"
    /\ piece = "rook"
    /\ sq = 27
    /\ targetShift = 54
    /\ maskMultipliers = << <<{11, 25, 26, 35, 51}, {12, 26, 31, 43}>>,
                            <<{19, 28, 29, 30, 43}, {19, 30, 36}>> >>
    /\ layerTargetBits = <<{54, 56, 57, 61, 63}, {55, 58, 59, 60, 62}>>

\* C8: verifyMultiplier never aborts, and for every returned layer and every
\* subset s of its sub-mask, (s * multiplier) & targetMask is the set of the
\* target bits at the ordinal positions of the bits of s.
C8_LayerIsBitExtract ==
    /\ failed # "verifyMultiplier"
    /\ \A i \in 1 .. Len(maskMultipliers) :
           \A s \in SUBSET maskMultipliers[i][1] :
               And(mul(s, maskMultipliers[i][2]), targetMask)
                   = {TargetPos(mask, b) : b \in s}

C8_Witness ==
    /\ pc = "decomposed"
    /\ \E i \in 1 .. Len(maskMultipliers) : bit_count(maskMultipliers[i][1]) >= 9

\* C9: the first iteration of findMultiplierForMask accepts the lowest mask
\* bit; a returned sub-mask is a nonempty subset of the residual mask, so the
\* residual strictly shrinks with every layer; and the number of layers never
\* exceeds popcount(mask).
C9_FirstBitAccepted ==
    (/\ pc = "find"
     /\ fMask # {}
     /\ fMask = Residual
     /\ LowBit(fTargetBits) # {}
     /\ LowBit(fTargetBits) \subseteq targetMask)
        => fConsumedMask' = LowBit(fMask)

C9_ResidualShrinks ==
    (pc = "find" /\ fMask = {} /\ pc' = "decompose")
        => /\ fConsumedMask # {}
           /\ fConsumedMask \subseteq Residual
           /\ Residual' \subseteq Residual
           /\ Residual' # Residual

C9_Progress ==
    /\ [][C9_FirstBitAccepted /\ C9_ResidualShrinks]_vars
    /\ [](Len(maskMultipliers) <= bit_count(mask))

C9_Witness ==
    /\ pc = "decompose"
    /\ Len(maskMultipliers) = 2
    /\ Residual # {}

\* C10: at the head of every iteration of the decomposition loop the
\* remaining target bits are exactly the target bits at the ordinal
\* positions of the residual mask bits (so the two have the same popcount);
\* inside findMultiplierForMask the target bits are not exhausted before the
\* mask bits, and findMultiplier's precondition maskBit <= targetBit holds.
C10_Pairing ==
    /\ pc = "decompose" =>
           /\ bit_count(remainingTargetBits) = bit_count(Residual)
           /\ remainingTargetBits = {TargetPos(mask, b) : b \in Residual}
    /\ (pc = "find" /\ fMask # {}) =>
           /\ fTargetBits # {}
           /\ findMultiplierPre(LowBit(fMask), LowBit(fTargetBits))
    /\ failed # "findMultiplier"

C10_Witness ==
    /\ pc = "find"
    /\ Len(maskMultipliers) = 1
    /\ fMask # {}
    /\ fMask # Residual
    /\ piece = "rook"

====
